---------------------------- MODULE Spec2Model ----------------------------
(***************************************************************************)
(* Model of the expression evaluation and string filter core of jinja2cpp: *)
(*   - helpers::ParseCallParamsImpl     (src/src/expression_evaluator.cpp) *)
(*   - BinaryExpression::Evaluate       (src/src/expression_evaluator.cpp) *)
(*   - CallExpression::CallGlobalRange  (src/src/expression_evaluator.cpp) *)
(*   - StringConverter::Filter       (src/src/string_converter_filter.cpp) *)
(*   - CallExpression::CallLoopCycle    (src/src/expression_evaluator.cpp) *)
(*   - CallExpression::Render, CallArbitraryFn and                         *)
(*     FullExpressionEvaluator::Render  (src/src/expression_evaluator.cpp) *)
(* Indices into C++ containers are kept 0-based, as in the source; the     *)
(* element with C++ index i of a sequence s is s[i + 1].                   *)
(***************************************************************************)
EXTENDS Integers, Sequences, FiniteSets, TLC

VARIABLES
    pc,            \* "call" before the operation has run, "done" after it returned, "aborted" if it faulted
    args,          \* the callee's declared schema: a sequence of ArgumentInfo
    params,        \* the caller's CallParams: [posParams, kwParams]
    parsed,        \* ParseCallParamsImpl's outcome: [result, isSucceeded, oob, ...]
    m_oper,        \* BinaryExpression::m_oper
    m_leftExpr,    \* BinaryExpression::m_leftExpr
    m_rightExpr,   \* BinaryExpression::m_rightExpr
    evaluated,     \* the expressions (by pointer) whose Evaluate ran, in order
    value,         \* the InternalValue an Evaluate call returned
    m_mode,        \* StringConverter::m_mode
    baseVal,       \* the string handed to StringConverter::Filter
    filterArgs,    \* the filter's arguments, as GetArgumentValue returns them
    filtered,      \* what StringConverter::Filter returned
    values,        \* the RenderContext, as far as CallLoopCycle reads it: the variable "loop"
    m_valueRef,    \* what CallExpression::m_valueRef evaluates to (the callee)
    m_tester,      \* FullExpressionEvaluator::m_tester: "none", or the guard's outcome
    stream         \* the text written to the OutStream

vars == <<pc, args, params, parsed, m_oper, m_leftExpr, m_rightExpr, evaluated,
          value, m_mode, baseVal, filterArgs, filtered,
          values, m_valueRef, m_tester, stream>>

binderVars == <<args, params, parsed>>
binaryVars == <<m_oper, m_leftExpr, m_rightExpr, evaluated>>
filterVars == <<m_mode, baseVal, filterArgs, filtered>>
callVars == <<values, m_valueRef, m_tester, stream>>

-----------------------------------------------------------------------------
(* Bounds of the model *)

\* the longest declared schema
MaxArgs == 3
\* the most positional arguments a caller passes
MaxPos == 4
\* the integers an operand, a range argument or loop.index0 evaluates to:
\* -MaxNeg..MaxInt
MaxInt == 10
MaxNeg == 3
\* the longest string handed to wordcount and truncate, and to replace
MaxStrLen == 5
MaxReplaceLen == 4
\* the longest old and new strings of replace, and its largest count
MaxPatLen == 2
MaxCount == 3
\* the largest leeway handed to truncate
MaxLeeway == 3

-----------------------------------------------------------------------------
(* InternalValue: a tagged value; only the variants the modelled code reads *)

EmptyValue == [type |-> "empty", data |-> 0, items |-> <<>>]

IntValue(n) == [type |-> "int", data |-> n, items |-> <<>>]

BoolValue(b) == [type |-> "bool", data |-> IF b THEN 1 ELSE 0, items |-> <<>>]

ListValue(s) == [type |-> "list", data |-> 0, items |-> s]

IsEmpty(v) == v.type = "empty"

\* An expression node: ptr is the identity of the shared_ptr, val what Evaluate returns
Expression(p, v) == [ptr |-> p, val |-> v]

\* std::make_shared<ConstantExpression>(defaultVal): a fresh node, owned by no caller
ConstantExpressionPtr == 0

ConstantExpression(v) == Expression(ConstantExpressionPtr, v)

\* a std::map as a function; m[k] = v
MapPut(m, k, v) == [x \in (DOMAIN m) \cup {k} |-> IF x = k THEN v ELSE m[x]]

EmptyMap == <<>>

-----------------------------------------------------------------------------
(* helpers::ParseCallParamsImpl *)

ArgumentInfo(n, m, d) == [name |-> n, mandatory |-> m, defaultVal |-> d]

ArgState == {"NotFound", "NotFoundMandatory", "Keyword", "Positional", "Ignored"}

ArgInfo(s, p, n) == [state |-> s, prevNotFound |-> p, nextNotFound |-> n]

IsPlaceholder(name) == name = "*args" \/ name = "**kwargs"

\* One step of the first loop, "Find all provided keyword args", for slot argIdx.
\* st = [argsInfo, args, firstMandatoryIdx, prevNotFound]
KeywordStep(argInfo, kwParams, argIdx, st) ==
    IF IsPlaceholder(argInfo.name)
    THEN [st EXCEPT !.argsInfo[argIdx + 1].state = "Ignored"]
    ELSE IF argInfo.name \in DOMAIN kwParams
    THEN [st EXCEPT !.args = MapPut(st.args, argInfo.name, kwParams[argInfo.name]),
                    !.argsInfo[argIdx + 1].state = "Keyword"]
    ELSE LET marked == [st EXCEPT
                 !.argsInfo[argIdx + 1].state =
                     IF argInfo.mandatory THEN "NotFoundMandatory" ELSE "NotFound",
                 !.firstMandatoryIdx =
                     IF argInfo.mandatory /\ st.firstMandatoryIdx = -1
                     THEN argIdx ELSE st.firstMandatoryIdx]
             linked == IF st.prevNotFound # -1
                       THEN [marked EXCEPT !.argsInfo[st.prevNotFound + 1].nextNotFound = argIdx]
                       ELSE marked
         IN [linked EXCEPT !.argsInfo[argIdx + 1].prevNotFound = st.prevNotFound,
                           !.prevNotFound = argIdx]

RECURSIVE KeywordPass(_, _, _, _)
KeywordPass(schema, kwParams, argIdx, st) ==
    IF argIdx >= Len(schema) THEN st
    ELSE KeywordPass(schema, kwParams, argIdx + 1,
                     KeywordStep(schema[argIdx + 1], kwParams, argIdx, st))

\* The state the loops read at argsInfo[i]; beyond the vector's size the read
\* is out of range and returns whatever the storage holds (garbage).
StateAt(argsInfo, i, garbage) ==
    IF i < Len(argsInfo) THEN argsInfo[i + 1].state ELSE garbage

\* the for loop's increment expression
EatenStep(argsInfo, s, garbage) ==
    [s EXCEPT !.eatenPosArgs =
                  s.eatenPosArgs + (IF StateAt(argsInfo, s.startPosArg, garbage) = "Ignored" THEN 0 ELSE 1),
              !.oob = s.oob \/ s.startPosArg >= Len(argsInfo),
              !.used = s.used \cup {s.startPosArg}]

RECURSIVE SkipBound(_, _)
SkipBound(argsInfo, startPosArg) ==
    IF startPosArg < Len(argsInfo)
       /\ argsInfo[startPosArg + 1].state \in {"Keyword", "Positional"}
    THEN SkipBound(argsInfo, startPosArg + 1)
    ELSE startPosArg

\* "Determine the range for positional arguments scanning"
\* s = [startPosArg, curPosArg, eatenPosArgs, isFirstTime, oob, used]; used is
\* the set of indices at which the loop has accessed argsInfo
RECURSIVE ScanWindow(_, _, _, _)
ScanWindow(argsInfo, nPos, garbage, s) ==
    IF ~(s.eatenPosArgs < nPos /\ s.startPosArg < Len(argsInfo)) THEN s
    ELSE IF s.isFirstTime
    THEN ScanWindow(argsInfo, nPos, garbage,
             EatenStep(argsInfo,
                       [s EXCEPT !.startPosArg = SkipBound(argsInfo, s.startPosArg),
                                 !.isFirstTime = FALSE,
                                 !.used = s.used \cup
                                     {i \in s.startPosArg..SkipBound(argsInfo, s.startPosArg) :
                                          i < Len(argsInfo)}],
                       garbage))
    ELSE LET prevNotFound == argsInfo[s.startPosArg + 1].prevNotFound
             read == [s EXCEPT !.used = s.used \cup {s.startPosArg}] IN
         IF prevNotFound # -1
         THEN ScanWindow(argsInfo, nPos, garbage,
                  EatenStep(argsInfo, [read EXCEPT !.startPosArg = prevNotFound], garbage))
         ELSE IF s.curPosArg = Len(argsInfo) THEN read
         ELSE LET nextPosArg == argsInfo[s.curPosArg + 1].nextNotFound
                  readCur == [read EXCEPT !.used = read.used \cup {s.curPosArg}] IN
              IF nextPosArg = -1 THEN readCur
              ELSE ScanWindow(argsInfo, nPos, garbage,
                       EatenStep(argsInfo, [readCur EXCEPT !.curPosArg = nextPosArg], garbage))

\* MapPositional stepping to the next schema slot instead of following the
\* chain of unbound slots (curArg = curArg + 1)
RECURSIVE MapPositionalSequential(_, _, _, _, _, _)
MapPositionalSequential(schema, posParams, eatenPosArgs, idx, curArg, st) ==
    IF ~(idx < eatenPosArgs /\ curArg # -1 /\ curArg < Len(st.argsInfo)) THEN st
    ELSE IF st.argsInfo[curArg + 1].state = "Ignored"
         THEN MapPositionalSequential(schema, posParams, eatenPosArgs, idx + 1, curArg + 1, st)
         ELSE MapPositionalSequential(schema, posParams, eatenPosArgs, idx + 1, curArg + 1,
                  [st EXCEPT !.args = MapPut(st.args, schema[curArg + 1].name, posParams[idx + 1]),
                             !.argsInfo[curArg + 1].state = "Positional",
                             !.bindings = Append(st.bindings, <<idx, curArg>>)])

\* "Map positional params to the desired arguments"
\* st = [argsInfo, args, bindings]; bindings lists the <<idx, curArg>> pairs of
\* the assignments result.args[...] = params.posParams[idx], in the order made
RECURSIVE MapPositional(_, _, _, _, _, _)
MapPositional(schema, posParams, eatenPosArgs, idx, curArg, st) ==
    IF ~(idx < eatenPosArgs /\ curArg # -1 /\ curArg < Len(st.argsInfo)) THEN st
    ELSE LET next == st.argsInfo[curArg + 1].nextNotFound IN
         IF st.argsInfo[curArg + 1].state = "Ignored"
         THEN MapPositional(schema, posParams, eatenPosArgs, idx + 1, next, st)
         ELSE MapPositional(schema, posParams, eatenPosArgs, idx + 1, next,
                  [st EXCEPT !.args = MapPut(st.args, schema[curArg + 1].name, posParams[idx + 1]),
                             !.argsInfo[curArg + 1].state = "Positional",
                             !.bindings = Append(st.bindings, <<idx, curArg>>)])

\* FillDefaults without the NotFoundMandatory case setting isSucceeded = false
RECURSIVE FillDefaultsLenient(_, _, _, _)
FillDefaultsLenient(schema, argsInfo, idx, st) ==
    IF idx >= Len(argsInfo) THEN st
    ELSE LET state == argsInfo[idx + 1].state
             info == schema[idx + 1]
         IN FillDefaultsLenient(schema, argsInfo, idx + 1,
                IF state = "NotFound" /\ ~IsEmpty(info.defaultVal)
                THEN [st EXCEPT !.args = MapPut(st.args, info.name,
                                                ConstantExpression(info.defaultVal))]
                ELSE st)

\* FillDefaults without the Positional case: a positionally bound slot falls
\* through to the default
RECURSIVE FillDefaultsOverwrite(_, _, _, _)
FillDefaultsOverwrite(schema, argsInfo, idx, st) ==
    IF idx >= Len(argsInfo) THEN st
    ELSE LET state == argsInfo[idx + 1].state
             info == schema[idx + 1]
         IN FillDefaultsOverwrite(schema, argsInfo, idx + 1,
                CASE state \in {"Keyword", "Ignored"} -> st
                  [] state \in {"NotFound", "Positional"} ->
                        IF ~IsEmpty(info.defaultVal)
                        THEN [st EXCEPT !.args = MapPut(st.args, info.name,
                                                        ConstantExpression(info.defaultVal))]
                        ELSE st
                  [] state = "NotFoundMandatory" -> [st EXCEPT !.isSucceeded = FALSE])

\* "Fill default arguments (if missing) and check for mandatory"
\* st = [args, isSucceeded]
RECURSIVE FillDefaults(_, _, _, _)
FillDefaults(schema, argsInfo, idx, st) ==
    IF idx >= Len(argsInfo) THEN st
    ELSE LET state == argsInfo[idx + 1].state
             info == schema[idx + 1]
         IN FillDefaults(schema, argsInfo, idx + 1,
                CASE state \in {"Positional", "Keyword", "Ignored"} -> st
                  [] state = "NotFound" ->
                        IF ~IsEmpty(info.defaultVal)
                        THEN [st EXCEPT !.args = MapPut(st.args, info.name,
                                                        ConstantExpression(info.defaultVal))]
                        ELSE st
                  [] state = "NotFoundMandatory" -> [st EXCEPT !.isSucceeded = FALSE])

\* "Fill the extra positional and kw-args"
ExtraKwArgs(kwParams, resultArgs) ==
    [k \in {n \in DOMAIN kwParams : n \notin DOMAIN resultArgs} |-> kwParams[k]]

ExtraPosArgs(posParams, eatenPosArgs) ==
    SubSeq(posParams, eatenPosArgs + 1, Len(posParams))

\* The whole of ParseCallParamsImpl.  garbage is the ArgState an out-of-range
\* read of argsInfo returns.
ParseCallParamsImpl(schema, callParams, garbage) ==
    LET kw == KeywordPass(schema, callParams.kwParams, 0,
                  [argsInfo |-> [i \in 1..Len(schema) |-> ArgInfo("NotFound", -1, -1)],
                   args |-> EmptyMap,
                   firstMandatoryIdx |-> -1,
                   prevNotFound |-> -1])
        first == IF kw.firstMandatoryIdx = -1 THEN 0 ELSE kw.firstMandatoryIdx
        scan == ScanWindow(kw.argsInfo, Len(callParams.posParams), garbage,
                    [startPosArg |-> first, curPosArg |-> first, eatenPosArgs |-> 0,
                     isFirstTime |-> TRUE, oob |-> FALSE, used |-> {}])
        mapped == MapPositional(schema, callParams.posParams, scan.eatenPosArgs, 0,
                      scan.startPosArg,
                      [argsInfo |-> kw.argsInfo, args |-> kw.args, bindings |-> <<>>])
        filled == FillDefaults(schema, mapped.argsInfo, 0,
                      [args |-> mapped.args, isSucceeded |-> TRUE])
    IN [result |-> [args |-> filled.args,
                    extraPosArgs |-> ExtraPosArgs(callParams.posParams, scan.eatenPosArgs),
                    extraKwArgs |-> ExtraKwArgs(callParams.kwParams, filled.args)],
        isSucceeded |-> filled.isSucceeded,
        argsInfo |-> mapped.argsInfo,
        bindings |-> mapped.bindings,
        eatenPosArgs |-> scan.eatenPosArgs,
        oob |-> scan.oob,
        used |-> scan.used]

-----------------------------------------------------------------------------
(* The calls the binder is checked on *)

\* declared names, by schema position
ParamNames == <<"a", "b", "c", "d", "e", "f">>

\* a caller keyword that no schema declares
ExtraName == "extraValue"

DefaultVal == IntValue(100)

ArgKinds == {"mandatory", "optional", "default", "*args", "**kwargs"}

ArgOf(i, kind) ==
    CASE kind = "mandatory" -> ArgumentInfo(ParamNames[i], TRUE, EmptyValue)
      [] kind = "optional"  -> ArgumentInfo(ParamNames[i], FALSE, EmptyValue)
      [] kind = "default"   -> ArgumentInfo(ParamNames[i], FALSE, DefaultVal)
      [] OTHER              -> ArgumentInfo(kind, FALSE, EmptyValue)

\* the caller's i-th positional expression (i from 1) and its keyword expressions
PosExpr(i) == Expression(i, IntValue(i))

KwNames == {ParamNames[i] : i \in 1..MaxArgs} \cup {ExtraName}

KwPtr(name) ==
    IF name = ExtraName THEN 50
    ELSE 50 + (CHOOSE i \in 1..Len(ParamNames) : ParamNames[i] = name)

KwExpr(name) == Expression(KwPtr(name), IntValue(KwPtr(name)))

CallParams(nPos, kwNames) ==
    [posParams |-> [i \in 1..nPos |-> PosExpr(i)],
     kwParams |-> [k \in kwNames |-> KwExpr(k)]]

NoParsed == [result |-> [args |-> EmptyMap, extraPosArgs |-> <<>>, extraKwArgs |-> EmptyMap],
             isSucceeded |-> TRUE, argsInfo |-> <<>>, bindings |-> <<>>, eatenPosArgs |-> 0, oob |-> FALSE,
             used |-> {}]

\* no variable "loop" in scope
NoLoop == [loopFound |-> FALSE, isMap |-> FALSE, index0 |-> 0]

\* a callee that is no Callable
NoCallable == [holds |-> "value", kind |-> "none", type |-> "none", body |-> <<>>]

CallUnused ==
    /\ values = NoLoop /\ m_valueRef = NoCallable /\ m_tester = "none" /\ stream = <<>>

BinderIdle ==
    /\ CallUnused
    /\ m_oper = "none" /\ m_leftExpr = ConstantExpression(EmptyValue)
    /\ m_rightExpr = ConstantExpression(EmptyValue) /\ evaluated = <<>>
    /\ value = EmptyValue
    /\ m_mode = "none" /\ baseVal = <<>> /\ filterArgs = <<>> /\ filtered = <<>>

InitBinder ==
    /\ pc = "call"
    /\ \E n \in 0..MaxArgs : \E kinds \in [1..n -> ArgKinds] :
          args = [i \in 1..n |-> ArgOf(i, kinds[i])]
    /\ \E nPos \in 0..MaxPos, kwNames \in SUBSET KwNames : params = CallParams(nPos, kwNames)
    /\ parsed = NoParsed
    /\ BinderIdle

\* what an out-of-range read of argsInfo may return: any state when the call
\* makes such a read (no read, no choice)
GarbageRead(schema, callParams) ==
    IF ParseCallParamsImpl(schema, callParams, "NotFound").oob THEN ArgState ELSE {"NotFound"}

\* helpers::ParseCallParams returns
ParseCallParams ==
    /\ pc = "call"
    /\ \E garbage \in GarbageRead(args, params) :
          parsed' = ParseCallParamsImpl(args, params, garbage)
    /\ pc' = "done"
    /\ UNCHANGED <<args, params, binaryVars, value, filterVars, callVars>>

\* the out-of-range read of argsInfo trips the container's bounds assertion
ParseCallParamsAbort ==
    /\ pc = "call"
    /\ ParseCallParamsImpl(args, params, "NotFound").oob
    /\ pc' = "aborted"
    /\ UNCHANGED <<args, params, parsed, binaryVars, value, filterVars, callVars>>

NextBinder == ParseCallParams \/ ParseCallParamsAbort

SpecBinder == InitBinder /\ [][NextBinder]_vars

-----------------------------------------------------------------------------
(* BinaryExpression::Evaluate *)

\* ConvertToBool: empty is false, a boolean itself, a number non-zero, a
\* container non-empty
ConvertToBool(v) ==
    CASE v.type = "empty" -> FALSE
      [] v.type = "bool"  -> v.data = 1
      [] v.type = "int"   -> v.data # 0
      [] v.type = "list"  -> Len(v.items) > 0

\* the "in" tester made by the constructor with seq = rightExpr: Test evaluates
\* seq and looks the value up in it
InTester(leftVal, seqVal) ==
    seqVal.type = "list" /\ \E i \in 1..Len(seqVal.items) : IntValue(seqVal.items[i]) = leftVal

\* the sub-expressions Evaluate evaluates itself, in order:
\*   leftVal = m_leftExpr->Evaluate(context);
\*   rightVal = m_oper == In ? InternalValue() : m_rightExpr->Evaluate(context);
OperandsEvaluated(oper, leftExpr, rightExpr) ==
    <<leftExpr.ptr>> \o (IF oper = "In" THEN <<>> ELSE <<rightExpr.ptr>>)

\* the switch on m_oper, given the operands' values
BinaryResult(oper, leftVal, rightVal, rightExpr) ==
    CASE oper = "LogicalAnd" ->
            BoolValue(IF ConvertToBool(leftVal) THEN ConvertToBool(rightVal) ELSE FALSE)
      [] oper = "LogicalOr" ->
            BoolValue(IF ~ConvertToBool(leftVal) THEN ConvertToBool(rightVal) ELSE TRUE)
      [] oper = "In" -> BoolValue(InTester(leftVal, rightExpr.val))

Operations == {"LogicalAnd", "LogicalOr", "In"}

OperandValues ==
    {EmptyValue, BoolValue(TRUE), BoolValue(FALSE)}
    \cup {IntValue(n) : n \in 0..2}
    \cup {ListValue(<<>>), ListValue(<<1>>)}

LeftPtr == 1
RightPtr == 2

BinderUnused == args = <<>> /\ params = [posParams |-> <<>>, kwParams |-> EmptyMap] /\ parsed = NoParsed

FilterUnused == m_mode = "none" /\ baseVal = <<>> /\ filterArgs = <<>> /\ filtered = <<>>

InitBinary ==
    /\ pc = "call"
    /\ m_oper \in Operations
    /\ \E l, r \in OperandValues :
          /\ m_leftExpr = Expression(LeftPtr, l)
          /\ m_rightExpr = Expression(RightPtr, r)
    /\ evaluated = <<>>
    /\ value = EmptyValue
    /\ BinderUnused /\ FilterUnused /\ CallUnused

BinaryEvaluate ==
    /\ pc = "call"
    /\ LET leftVal == m_leftExpr.val
           rightVal == IF m_oper = "In" THEN EmptyValue ELSE m_rightExpr.val
       IN /\ evaluated' = evaluated
                 \o OperandsEvaluated(m_oper, m_leftExpr, m_rightExpr)
                 \o (IF m_oper = "In" THEN <<m_rightExpr.ptr>> ELSE <<>>)
          /\ value' = BinaryResult(m_oper, leftVal, rightVal, m_rightExpr)
    /\ pc' = "done"
    /\ UNCHANGED <<binderVars, m_oper, m_leftExpr, m_rightExpr, filterVars, callVars>>

NextBinary == BinaryEvaluate

SpecBinary == InitBinary /\ [][NextBinary]_vars

-----------------------------------------------------------------------------
(* CallExpression::CallGlobalRange *)

\* helpers::ParseCallParams({{"start"}, {"stop", true}, {"step"}}, m_params, isArgsParsed)
RangeArgs ==
    <<ArgumentInfo("start", FALSE, EmptyValue),
      ArgumentInfo("stop", TRUE, EmptyValue),
      ArgumentInfo("step", FALSE, EmptyValue)>>

\* visitors::IntegerEvaluator: the integer of a value, 0 for the empty value
IntegerEvaluator(v) == IF v.type \in {"int", "bool"} THEN v.data ELSE 0

\* C++ integer division, truncating toward zero (b # 0)
TruncDiv(a, b) ==
    LET q == (IF a < 0 THEN -a ELSE a) \div (IF b < 0 THEN -b ELSE b)
    IN IF (a < 0) = (b < 0) THEN q ELSE -q

\* auto expr = args[name]; expr ? expr->Evaluate(values) : InternalValue()
EvaluateArg(boundArgs, name) ==
    IF name \in DOMAIN boundArgs THEN boundArgs[name].val ELSE EmptyValue

\* RangeList with the item count rounded up instead of truncated
RangeListCeil(boundArgs) ==
    LET start == IntegerEvaluator(EvaluateArg(boundArgs, "start"))
        stop == IntegerEvaluator(EvaluateArg(boundArgs, "stop"))
        step0 == IntegerEvaluator(EvaluateArg(boundArgs, "step"))
        step == IF "step" \notin DOMAIN boundArgs THEN 1 ELSE step0
    IN IF "step" \in DOMAIN boundArgs /\ step0 = 0 THEN EmptyValue
       ELSE LET distance == stop - start
                quot == TruncDiv(distance, step)
                up == IF quot * step # distance /\ (distance < 0) = (step < 0)
                      THEN quot + 1 ELSE quot
                items_count == IF up < 0 THEN 0 ELSE up
            IN ListValue([idx \in 1..items_count |-> start + step * (idx - 1)])

\* CallGlobalRange after the arguments are bound
RangeList(boundArgs) ==
    LET start == IntegerEvaluator(EvaluateArg(boundArgs, "start"))
        stop == IntegerEvaluator(EvaluateArg(boundArgs, "stop"))
        step0 == IntegerEvaluator(EvaluateArg(boundArgs, "step"))
        step == IF "step" \notin DOMAIN boundArgs THEN 1 ELSE step0
    IN IF "step" \in DOMAIN boundArgs /\ step0 = 0 THEN EmptyValue
       ELSE LET distance == stop - start
                quot == TruncDiv(distance, step)
                items_count == IF quot < 0 THEN 0 ELSE quot
            IN ListValue([idx \in 1..items_count |-> start + step * (idx - 1)])

RangeInts == (0 - MaxNeg)..MaxInt

RangeNames == {"start", "stop", "step"}

\* a range call whose arguments are integer constants
RangeCall(pv, kv) ==
    [posParams |-> [i \in DOMAIN pv |-> Expression(i, IntValue(pv[i]))],
     kwParams |-> [k \in DOMAIN kv |-> Expression(KwPtr(ExtraName), IntValue(kv[k]))]]

InitRange ==
    /\ pc = "call"
    /\ args = RangeArgs
    /\ \E nPos \in 0..Len(RangeArgs), names \in SUBSET RangeNames :
          /\ nPos + Cardinality(names) <= Len(RangeArgs)
          /\ \E pv \in [1..nPos -> RangeInts], kv \in [names -> RangeInts] :
                params = RangeCall(pv, kv)
    /\ parsed = NoParsed
    /\ value = EmptyValue
    /\ m_oper = "none" /\ m_leftExpr = ConstantExpression(EmptyValue)
    /\ m_rightExpr = ConstantExpression(EmptyValue) /\ evaluated = <<>>
    /\ FilterUnused /\ CallUnused

CallGlobalRange ==
    /\ pc = "call"
    /\ \E garbage \in GarbageRead(RangeArgs, params) :
          /\ parsed' = ParseCallParamsImpl(RangeArgs, params, garbage)
          /\ value' = IF ~parsed'.isSucceeded THEN EmptyValue
                      ELSE RangeList(parsed'.result.args)
    /\ pc' = "done"
    /\ UNCHANGED <<args, params, binaryVars, filterVars, callVars>>

NextRange == CallGlobalRange

SpecRange == InitRange /\ [][NextRange]_vars

-----------------------------------------------------------------------------
(* StringConverter::Filter.  A string is a sequence of one-character strings. *)

Letters == {"a", "b", "c", "e", "f", "h", "i", "k", "n", "o", "q", "r", "u", "w", "x", "T", "X"}

Digits == {"7"}

\* ba::is_alnum() and the is_space() that ba::trim_right uses
IsAlNum(ch) == ch \in Letters \cup Digits

IsSpace(ch) == ch = " "

\* ConvertToInt(v, def): the integer of v, def for the empty value
ConvertToInt(v, def) == IF v.type = "empty" THEN def ELSE v.data

\* WordCountMode: the lambda, called with each character; st = [isDelim, wc]
\* that counts every alphanumeric character (the isDelim test dropped)
WordCountLambdaEveryChar(ch, st) ==
    IF IsAlNum(ch)
    THEN [isDelim |-> FALSE, wc |-> st.wc + 1]
    ELSE [st EXCEPT !.isDelim = ~IsAlNum(ch)]

\* WordCountMode: the lambda, called with each character; st = [isDelim, wc]
WordCountLambda(ch, st) ==
    IF st.isDelim /\ IsAlNum(ch)
    THEN [isDelim |-> FALSE, wc |-> st.wc + 1]
    ELSE [st EXCEPT !.isDelim = ~IsAlNum(ch)]

\* StringEncoder::operator(): for (auto& ch : str) EncodeChar(ch, ...)
RECURSIVE EncodeChars(_, _, _)
EncodeChars(str, i, st) ==
    IF i > Len(str) THEN st
    ELSE EncodeChars(str, i + 1, WordCountLambda(str[i], st))

WordCount(str) == EncodeChars(str, 1, [isDelim |-> TRUE, wc |-> 0]).wc

\* the first position >= from at which search occurs in str, 0 if none; an
\* empty search string is never found (boost first_finder)
FindFirst(str, search, from) ==
    LET hits == {i \in from..(Len(str) - Len(search) + 1) :
                    SubSeq(str, i, i + Len(search) - 1) = search}
    IN IF search = <<>> \/ hits = {} THEN 0
       ELSE CHOOSE i \in hits : \A j \in hits : i <= j

\* ba::replace_first(str, oldStr, newStr)
ReplaceFirst(str, oldStr, newStr) ==
    LET i == FindFirst(str, oldStr, 1)
    IN IF i = 0 THEN str
       ELSE SubSeq(str, 1, i - 1) \o newStr \o SubSeq(str, i + Len(oldStr), Len(str))

\* ba::replace_all(str, oldStr, newStr): each search goes on behind the last match
RECURSIVE ReplaceAllFrom(_, _, _, _)
ReplaceAllFrom(str, oldStr, newStr, from) ==
    LET i == FindFirst(str, oldStr, from)
    IN IF i = 0 THEN SubSeq(str, from, Len(str))
       ELSE SubSeq(str, from, i - 1) \o newStr
            \o ReplaceAllFrom(str, oldStr, newStr, i + Len(oldStr))

ReplaceAll(str, oldStr, newStr) == ReplaceAllFrom(str, oldStr, newStr, 1)

\* for (int64_t n = 0; n < count; ++ n) ba::replace_first(str, oldStr, newStr);
RECURSIVE ReplaceLoop(_, _, _, _, _)
ReplaceLoop(str, oldStr, newStr, n, count) ==
    IF ~(n < count) THEN str
    ELSE ReplaceLoop(ReplaceFirst(str, oldStr, newStr), oldStr, newStr, n + 1, count)

\* ReplaceMode's lambda
Replace(srcStr, oldStr, newStr, count) ==
    IF count = 0 THEN ReplaceAll(srcStr, oldStr, newStr)
    ELSE ReplaceLoop(srcStr, oldStr, newStr, 0, count)

\* ba::trim_right(str)
RECURSIVE TrimRight(_)
TrimRight(str) ==
    IF str # <<>> /\ IsSpace(str[Len(str)])
    THEN TrimRight(SubSeq(str, 1, Len(str) - 1))
    ELSE str

\* for (; leeway != 0 && p != str.end() && isAlNum(*p); -- leeway, ++ p);
\* p is the 0-based offset of the iterator
RECURSIVE ScanForward(_, _, _)
ScanForward(str, p, leeway) ==
    IF leeway # 0 /\ p # Len(str) /\ IsAlNum(str[p + 1])
    THEN ScanForward(str, p + 1, leeway - 1)
    ELSE p

\* for (; p != str.begin() && isAlNum(*p); -- p);
RECURSIVE ScanBackward(_, _)
ScanBackward(str, p) ==
    IF p # 0 /\ IsAlNum(str[p + 1]) THEN ScanBackward(str, p - 1) ELSE p

DefaultLeeway == 5

\* TruncateMode's lambda
Truncate(srcStr, lengthArg, killWords, end, leewayArg) ==
    LET length == ConvertToInt(lengthArg, 0)
        leeway == ConvertToInt(leewayArg, DefaultLeeway)
    IN IF Len(srcStr) <= length THEN srcStr
       ELSE IF killWords
       THEN (IF Len(srcStr) > length + leeway
             THEN SubSeq(srcStr, 1, length) \o end
             ELSE srcStr)
       ELSE LET p1 == IF leeway # 0 THEN ScanForward(srcStr, length, leeway) ELSE length
            IN IF leeway # 0 /\ p1 = Len(srcStr) THEN srcStr
               ELSE LET p2 == IF IsAlNum(srcStr[p1 + 1])
                              THEN ScanBackward(srcStr, p1) ELSE p1
                    IN TrimRight(SubSeq(srcStr, 1, p2)) \o end

Strings(alphabet, minLen, maxLen) == UNION {[1..n -> alphabet] : n \in minLen..maxLen}

Dots == <<".", ".", ".">>

TheQuickBrownFox ==
    <<"T", "h", "e", " ", "q", "u", "i", "c", "k", " ",
      "b", "r", "o", "w", "n", " ", "f", "o", "x">>

ReplaceArgs(o, n, c) == [old |-> o, new |-> n, count |-> c]

TruncateArgs(l, k, e, w) == [length |-> l, killwords |-> k, end |-> e, leeway |-> w]

BinaryUnused ==
    /\ m_oper = "none" /\ m_leftExpr = ConstantExpression(EmptyValue)
    /\ m_rightExpr = ConstantExpression(EmptyValue) /\ evaluated = <<>>

InitWordCount ==
    /\ m_mode = "WordCountMode"
    /\ baseVal \in Strings({"a", "7", " ", "-"}, 0, MaxStrLen)
    /\ filterArgs = <<>>

InitReplace ==
    /\ m_mode = "ReplaceMode"
    /\ \/ /\ baseVal \in Strings({"a", "b"}, 0, MaxReplaceLen)
          /\ \E o \in Strings({"a", "b"}, 1, MaxPatLen), n \in Strings({"a", "b"}, 0, MaxPatLen),
                c \in (0 - 1)..MaxCount : filterArgs = ReplaceArgs(o, n, IntValue(c))
       \/ /\ baseVal = <<"a", "b", "c", "a", "b", "c">>
          /\ \E c \in 0..MaxCount : filterArgs = ReplaceArgs(<<"a">>, <<"X">>, IntValue(c))

InitTruncate ==
    /\ m_mode = "TruncateMode"
    /\ \/ /\ baseVal \in Strings({"a", " ", "-"}, 0, MaxStrLen)
          /\ \E l \in 0..MaxStrLen, k \in BOOLEAN, e \in {Dots, <<>>},
                w \in {EmptyValue} \cup {IntValue(i) : i \in 0..MaxLeeway} :
                filterArgs = TruncateArgs(IntValue(l), k, e, w)
       \/ /\ baseVal = TheQuickBrownFox
          /\ \E l \in 0..Len(TheQuickBrownFox), k \in BOOLEAN,
                w \in {EmptyValue} \cup {IntValue(i) : i \in 0..MaxLeeway} :
                filterArgs = TruncateArgs(IntValue(l), k, Dots, w)

InitFilter ==
    /\ pc = "call"
    /\ InitWordCount \/ InitReplace \/ InitTruncate
    /\ filtered = <<>>
    /\ value = EmptyValue
    /\ BinderUnused /\ BinaryUnused /\ CallUnused

\* case WordCountMode: returns the count as an integer value
FilterWordCount ==
    /\ pc = "call" /\ m_mode = "WordCountMode"
    /\ value' = IntValue(WordCount(baseVal))
    /\ pc' = "done"
    /\ UNCHANGED <<binderVars, binaryVars, filterVars, callVars>>

\* case ReplaceMode
FilterReplace ==
    /\ pc = "call" /\ m_mode = "ReplaceMode"
    /\ filtered' = Replace(baseVal, filterArgs.old, filterArgs.new,
                           ConvertToInt(filterArgs.count, 0))
    /\ pc' = "done"
    /\ UNCHANGED <<binderVars, binaryVars, value, m_mode, baseVal, filterArgs, callVars>>

\* case TruncateMode
FilterTruncate ==
    /\ pc = "call" /\ m_mode = "TruncateMode"
    /\ filtered' = Truncate(baseVal, filterArgs.length, filterArgs.killwords,
                            filterArgs.end, filterArgs.leeway)
    /\ pc' = "done"
    /\ UNCHANGED <<binderVars, binaryVars, value, m_mode, baseVal, filterArgs, callVars>>

NextFilter == FilterWordCount \/ FilterReplace \/ FilterTruncate

SpecFilter == InitFilter /\ [][NextFilter]_vars

-----------------------------------------------------------------------------
(* CallExpression::CallLoopCycle *)

\* 2^e modulo n
RECURSIVE Pow2Mod(_, _)
Pow2Mod(e, n) == IF e = 0 THEN 1 % n ELSE (2 * Pow2Mod(e - 1, n)) % n

\* static_cast<size_t>(baseIdx % m_params.posParams.size()) for size > 0: the
\* int64_t baseIdx is converted to the 64-bit unsigned size_t before the
\* remainder is taken, so a negative baseIdx counts as baseIdx + 2^64
CycleIdx(baseIdx, size) ==
    IF baseIdx >= 0 THEN baseIdx % size
    ELSE (Pow2Mod(64, size) + (baseIdx % size)) % size

\* the calls on which CallLoopCycle has no defined result: "loop" holds no
\* MapAdapter (GetIf returns nullptr, which is dereferenced), or there is no
\* positional argument (remainder by zero)
CycleFaults(vals, callParams) ==
    vals.loopFound /\ (~vals.isMap \/ Len(callParams.posParams) = 0)

\* what CallLoopCycle returns when it returns
LoopCycleValue(vals, callParams) ==
    IF ~vals.loopFound THEN EmptyValue
    ELSE callParams.posParams[CycleIdx(vals.index0, Len(callParams.posParams)) + 1].val

\* the variable "loop" as the scopes can hold it: absent, a value that is no
\* map, or a map whose index0 is an integer
LoopValues ==
    {NoLoop, [loopFound |-> TRUE, isMap |-> FALSE, index0 |-> 0]}
       \cup {[loopFound |-> TRUE, isMap |-> TRUE, index0 |-> i] : i \in -MaxNeg..MaxInt}

InitCycle ==
    /\ pc = "call"
    /\ args = <<>>
    /\ \E nPos \in 0..MaxPos, kwNames \in {{}, {ExtraName}} : params = CallParams(nPos, kwNames)
    /\ parsed = NoParsed
    /\ values \in LoopValues
    /\ value = EmptyValue
    /\ m_valueRef = NoCallable /\ m_tester = "none" /\ stream = <<>>
    /\ BinaryUnused /\ FilterUnused

\* CallLoopCycle returns
CallLoopCycle ==
    /\ pc = "call"
    /\ ~CycleFaults(values, params)
    /\ value' = LoopCycleValue(values, params)
    /\ pc' = "done"
    /\ UNCHANGED <<binderVars, binaryVars, filterVars, callVars>>

\* CallLoopCycle dereferences the null MapAdapter or divides by zero: the
\* render is terminated
CallLoopCycleFault ==
    /\ pc = "call"
    /\ CycleFaults(values, params)
    /\ pc' = "aborted"
    /\ UNCHANGED <<binderVars, binaryVars, value, filterVars, callVars>>

\* what a call without defined behaviour hands back when the build does not
\* trap: whatever the storage read holds
StrayValues == {EmptyValue} \cup {IntValue(i) : i \in 1..MaxPos}

\* the same calls on a build where neither the null dereference nor the
\* remainder by zero traps
CallLoopCycleStray ==
    /\ pc = "call"
    /\ CycleFaults(values, params)
    /\ value' \in StrayValues
    /\ pc' = "done"
    /\ UNCHANGED <<binderVars, binaryVars, filterVars, callVars>>

NextCycle == CallLoopCycle \/ CallLoopCycleFault \/ CallLoopCycleStray

SpecCycle == InitCycle /\ [][NextCycle]_vars

-----------------------------------------------------------------------------
(* CallExpression::Render, CallExpression::Evaluate, FullExpressionEvaluator::Render *)

\* the longest text a callable produces
MaxBodyLen == 2

StringValue(chars) == [type |-> "string", data |-> 0, items |-> chars]

\* OutStream::WriteValue: the text of a string value is appended to the sink,
\* the empty value writes nothing
WriteValue(out, val) == IF val.type = "string" THEN out \o val.items ELSE out

\* the callee as m_valueRef->Evaluate returns it: a Callable, a value whose
\* "operator()" member is a Callable (holds = "functor"), or any other value;
\* body is the text the callable produces
Callable(holds, kind, type, body) ==
    [holds |-> holds, kind |-> kind, type |-> type, body |-> body]

CallableKinds == {"GlobalFunc", "SpecialFn", "Macro", "UserCallable"}

CallableTypes == {"Expression", "Statement"}

\* GetIf<Callable>(&fnVal), then once more on Subscript(fnVal, "operator()")
FindCallable(fnVal) == fnVal.holds \in {"callable", "functor"}

\* callable->GetExpressionCallable()(m_params, values)
ExpressionCallable(callable) == StringValue(callable.body)

\* callable->GetStatementCallable()(m_params, stream, values)
StatementCallable(callable, out) == out \o callable.body

\* CallExpression::CallArbitraryFn
CallArbitraryFn(fnVal) ==
    IF ~FindCallable(fnVal) THEN EmptyValue
    ELSE IF fnVal.kind # "GlobalFunc" /\ fnVal.kind # "UserCallable" THEN EmptyValue
    ELSE IF fnVal.type = "Expression" THEN ExpressionCallable(fnVal)
    ELSE StringValue(StatementCallable(fnVal, <<>>))

\* CallExpression::Evaluate on a callee that is no integer id: the default
\* branch of the switch
CallExpressionEvaluate(fnVal) == CallArbitraryFn(fnVal)

\* ExpressionEvaluatorBase::Render of the call expression
ExpressionRender(out, fnVal) == WriteValue(out, CallExpressionEvaluate(fnVal))

\* CallExpression::Render
CallExpressionRender(out, fnVal) ==
    IF ~FindCallable(fnVal) THEN ExpressionRender(out, fnVal)
    ELSE IF fnVal.type = "Expression" THEN WriteValue(out, ExpressionCallable(fnVal))
    ELSE StatementCallable(fnVal, out)

\* FullExpressionEvaluator::Evaluate; a guard without else branch has the
\* empty value as its alternative
FullExpressionEvaluate(fnVal, tester) ==
    LET result == CallExpressionEvaluate(fnVal)
    IN IF tester # "none" /\ tester # "passes" THEN EmptyValue ELSE result

\* FullExpressionEvaluator::Render
FullExpressionRender(out, fnVal, tester) ==
    IF tester = "none" THEN CallExpressionRender(out, fnVal)
    ELSE WriteValue(out, FullExpressionEvaluate(fnVal, tester))

Callees ==
    {NoCallable} \cup
    {Callable(h, k, t, b) : h \in {"callable", "functor"}, k \in CallableKinds,
                           t \in CallableTypes, b \in Strings({"H"}, 0, MaxBodyLen)}

InitCall ==
    /\ pc = "call"
    /\ m_valueRef \in Callees
    /\ m_tester \in {"none", "passes", "fails"}
    /\ stream = <<>>
    /\ value = EmptyValue
    /\ values = NoLoop
    /\ BinderUnused /\ BinaryUnused /\ FilterUnused

\* the full expression {{ callee(...) }} or {{ callee(...) if guard }} is rendered
RenderFullExpression ==
    /\ pc = "call"
    /\ stream' = FullExpressionRender(stream, m_valueRef, m_tester)
    /\ pc' = "rendered"
    /\ UNCHANGED <<binderVars, binaryVars, value, filterVars, values, m_valueRef, m_tester>>

\* the same call expression is evaluated
EvaluateCall ==
    /\ pc = "rendered"
    /\ value' = CallExpressionEvaluate(m_valueRef)
    /\ pc' = "done"
    /\ UNCHANGED <<binderVars, binaryVars, filterVars, callVars>>

NextCall == RenderFullExpression \/ EvaluateCall

SpecCall == InitCall /\ [][NextCall]_vars

-----------------------------------------------------------------------------
(* Vocabulary of the binder's claims *)

Returned == pc = "done"

\* the schema positions (from 1) of the declared parameters that are not placeholders
DeclaredSlots == {i \in 1..Len(args) : ~IsPlaceholder(args[i].name)}

DeclaredNames == {args[i].name : i \in DeclaredSlots}

KeywordMatched(i) == args[i].name \in DOMAIN params.kwParams

\* the caller's positionals (C++ index) the mapping loop assigned, and the slots they went to
BoundPositionals == {parsed.bindings[k][1] : k \in 1..Len(parsed.bindings)}

PositionalSlots == {parsed.bindings[k][2] + 1 : k \in 1..Len(parsed.bindings)}

ReceivedPositional(i) == i \in PositionalSlots

IsBound(name) == name \in DOMAIN parsed.result.args

\* the subsequence of s at the indices in keep, in order
RECURSIVE SelectIdx(_, _, _)
SelectIdx(s, keep, i) ==
    IF i > Len(s) THEN <<>>
    ELSE (IF i \in keep THEN <<s[i]>> ELSE <<>>) \o SelectIdx(s, keep, i + 1)

UnboundPositionals ==
    SelectIdx(params.posParams,
              {j \in 1..Len(params.posParams) : (j - 1) \notin BoundPositionals}, 1)

\* C1: when ParseCallParams reports success every mandatory declared parameter
\* (placeholders aside) is a key of args, and it reports failure whenever a
\* mandatory parameter received neither a keyword nor a positional argument.
C1_MandatoryBound ==
    Returned =>
       /\ parsed.isSucceeded =>
             \A i \in DeclaredSlots : args[i].mandatory => IsBound(args[i].name)
       /\ (\E i \in DeclaredSlots :
              args[i].mandatory /\ ~KeywordMatched(i) /\ ~ReceivedPositional(i))
             => ~parsed.isSucceeded

\* a successful call with one mandatory parameter bound by position and one by keyword
C1_Witness ==
    /\ Returned /\ parsed.isSucceeded
    /\ \E i, j \in DeclaredSlots :
          /\ args[i].mandatory /\ ReceivedPositional(i)
          /\ args[j].mandatory /\ KeywordMatched(j)

\* a failed call: a mandatory parameter got nothing
C1_WitnessFailure ==
    /\ Returned /\ ~parsed.isSucceeded
    /\ \E i \in DeclaredSlots : args[i].mandatory /\ ~IsBound(args[i].name)

\* C5: extra_pos_args is exactly the caller's positionals bound to no declared
\* parameter, in caller order; extra_kw_args exactly the caller's keywords whose
\* name is not declared; so every caller argument is in args or in the extras,
\* none dropped and none twice.
C5_ExtrasExact ==
    Returned =>
       /\ parsed.result.extraPosArgs = UnboundPositionals
       /\ parsed.result.extraKwArgs =
             [k \in (DOMAIN params.kwParams) \ DeclaredNames |-> params.kwParams[k]]
       /\ \A j \in 1..Len(params.posParams) :
             Cardinality({n \in DOMAIN parsed.result.args :
                             parsed.result.args[n] = params.posParams[j]})
             + Cardinality({k \in 1..Len(parsed.result.extraPosArgs) :
                             parsed.result.extraPosArgs[k] = params.posParams[j]}) = 1
       /\ \A k \in DOMAIN params.kwParams :
             (k \in DOMAIN parsed.result.args /\ parsed.result.args[k] = params.kwParams[k])
             # (k \in DOMAIN parsed.result.extraKwArgs)

\* C5 on the calls that read argsInfo within its bounds only
C5_ExtrasExactInBounds == (Returned /\ ~parsed.oob) => C5_ExtrasExact

\* C6: positionals go only to slots no keyword matched, a keyword-bound slot
\* keeps the keyword's expression, and the binding preserves order: the later
\* positional goes to the later slot, and no slot receives two positionals.
C6_PositionalOrder ==
    Returned =>
       /\ \A k \in 1..Len(parsed.bindings) :
             LET idx == parsed.bindings[k][1]
                 slot == parsed.bindings[k][2] + 1
             IN /\ slot \in DeclaredSlots
                /\ ~KeywordMatched(slot)
                /\ parsed.result.args[args[slot].name] = params.posParams[idx + 1]
       /\ \A k, l \in 1..Len(parsed.bindings) :
             k < l => /\ parsed.bindings[k][1] < parsed.bindings[l][1]
                      /\ parsed.bindings[k][2] < parsed.bindings[l][2]
       /\ \A i \in DeclaredSlots :
             KeywordMatched(i) =>
                /\ IsBound(args[i].name)
                /\ parsed.result.args[args[i].name] = params.kwParams[args[i].name]
       /\ (/\ args = <<ArgOf(1, "optional"), ArgOf(2, "optional"), ArgOf(3, "default")>>
           /\ params = CallParams(2, {ParamNames[2]}))
             => parsed.result.args =
                   [n \in {ParamNames[1], ParamNames[2], ParamNames[3]} |->
                       CASE n = ParamNames[1] -> PosExpr(1)
                         [] n = ParamNames[3] -> PosExpr(2)
                         [] OTHER -> KwExpr(ParamNames[2])]

\* f(1, 2, x=3) against (a, x, b='d'): two positionals land around the keyword-bound slot
C6_Witness ==
    /\ Returned
    /\ Len(args) = 3 /\ KeywordMatched(2) /\ 2 \in DeclaredSlots
    /\ parsed.bindings = <<<<0, 0>>, <<1, 2>>>>

\* C7: an optional parameter that got neither keyword nor positional and has a
\* non-empty default is bound to a constant expression wrapping the default; a
\* parameter that got a caller argument is bound to the caller's expression.
C7_Defaults ==
    Returned =>
       \A i \in DeclaredSlots :
          LET name == args[i].name IN
          /\ (/\ ~args[i].mandatory /\ ~IsEmpty(args[i].defaultVal)
              /\ ~KeywordMatched(i) /\ ~ReceivedPositional(i))
                => /\ IsBound(name)
                   /\ parsed.result.args[name] = ConstantExpression(args[i].defaultVal)
          /\ KeywordMatched(i)
                => IsBound(name) /\ parsed.result.args[name] = params.kwParams[name]
          /\ ReceivedPositional(i)
                => /\ IsBound(name)
                   /\ \E j \in 1..Len(params.posParams) :
                         parsed.result.args[name] = params.posParams[j]
                   /\ parsed.result.args[name].ptr # ConstantExpressionPtr

\* one call where a default is used, and another defaulted parameter takes a positional
C7_Witness ==
    /\ Returned
    /\ \E i, j \in DeclaredSlots :
          /\ ~IsEmpty(args[i].defaultVal) /\ ~KeywordMatched(i) /\ ~ReceivedPositional(i)
          /\ parsed.result.args[args[i].name] = ConstantExpression(args[i].defaultVal)
          /\ ~IsEmpty(args[j].defaultVal) /\ ReceivedPositional(j)

-----------------------------------------------------------------------------
(* Claims about BinaryExpression::Evaluate and CallGlobalRange *)

RightEvaluated == \E k \in 1..Len(evaluated) : evaluated[k] = RightPtr

\* C2: LogicalAnd with a falsy left operand and LogicalOr with a truthy left
\* operand never evaluate the right operand expression.
C2_ShortCircuit ==
    Returned =>
       /\ (m_oper = "LogicalAnd" /\ ~ConvertToBool(m_leftExpr.val)) => ~RightEvaluated
       /\ (m_oper = "LogicalOr" /\ ConvertToBool(m_leftExpr.val)) => ~RightEvaluated

Abs(n) == IF n < 0 THEN 0 - n ELSE n

\* the quotient a / b rounded toward zero
TowardZero(a, b) ==
    CHOOSE q \in (0 - Abs(a))..Abs(a) :
        /\ Abs(q) * Abs(b) <= Abs(a)
        /\ Abs(a) < (Abs(q) + 1) * Abs(b)
        /\ (q > 0 => (a < 0) = (b < 0))
        /\ (q < 0 => (a < 0) # (b < 0))

PositionalInts == [i \in 1..Len(params.posParams) |-> params.posParams[i].val.data]

IsPositionalCall(n) == Len(params.posParams) = n /\ DOMAIN params.kwParams = {}

\* C3: range(1, 10, 2) is the list [1,3,5,7,9]; for step > 0 the list holds
\* every value start + step*i (i >= 0) smaller than stop.
C3_RangeContainsAllBelowStop ==
    (Returned /\ IsPositionalCall(3) /\ PositionalInts[3] > 0) =>
       LET start == PositionalInts[1]
           stop == PositionalInts[2]
           step == PositionalInts[3]
       IN /\ value.type = "list"
          /\ \A i \in 0..(MaxInt + MaxNeg) :
                start + step * i < stop =>
                   \E k \in 1..Len(value.items) : value.items[k] = start + step * i
          /\ PositionalInts = <<1, 10, 2>> => value.items = <<1, 3, 5, 7, 9>>

\* what range(1, 10, 2) evaluates to
C3_RangeExampleActual ==
    (Returned /\ IsPositionalCall(3) /\ PositionalInts = <<1, 10, 2>>)
       => value = ListValue(<<1, 3, 5, 7>>)

\* C4: with a non-zero step the list has length max(0, (stop - start) / step),
\* the division truncating toward zero, and element i is start + step*i; step
\* is 1 when no step argument is bound and start 0 when no start is bound.
C4_RangeLength ==
    (Returned /\ parsed.isSucceeded) =>
       LET bound == parsed.result.args
           start == IF "start" \in DOMAIN bound THEN bound["start"].val.data ELSE 0
           stop == bound["stop"].val.data
           step == IF "step" \in DOMAIN bound THEN bound["step"].val.data ELSE 1
           q == TowardZero(stop - start, step)
           len == IF q < 0 THEN 0 ELSE q
       IN /\ step # 0 =>
                /\ value.type = "list"
                /\ Len(value.items) = len
                /\ \A i \in 0..(len - 1) : value.items[i + 1] = start + step * i
          /\ IsPositionalCall(1) => stop = PositionalInts[1] /\ start = 0 /\ step = 1
          /\ IsPositionalCall(2) =>
                start = PositionalInts[1] /\ stop = PositionalInts[2] /\ step = 1
          /\ IsPositionalCall(3) =>
                start = PositionalInts[1] /\ stop = PositionalInts[2] /\ step = PositionalInts[3]

\* a descending range whose distance the step does not divide: range(5, 0, -2) = [5, 3]
C4_Witness ==
    /\ Returned /\ IsPositionalCall(3) /\ PositionalInts = <<5, 0, 0 - 2>>
    /\ value = ListValue(<<5, 3>>)

\* range(3) and range(2, 5): the defaults of start and step
C4_WitnessDefaults ==
    /\ Returned /\ IsPositionalCall(1) /\ PositionalInts = <<3>>
    /\ value = ListValue(<<0, 1, 2>>)

-----------------------------------------------------------------------------
(* Claims about the string filters *)

\* str with the first n non-overlapping occurrences of oldStr, found left to
\* right from position i of the source, replaced by newStr
RECURSIVE ReplacedOccurrences(_, _, _, _, _)
ReplacedOccurrences(str, oldStr, newStr, n, i) ==
    IF i > Len(str) THEN <<>>
    ELSE IF n > 0 /\ i + Len(oldStr) - 1 <= Len(str)
            /\ SubSeq(str, i, i + Len(oldStr) - 1) = oldStr
    THEN newStr \o ReplacedOccurrences(str, oldStr, newStr, n - 1, i + Len(oldStr))
    ELSE <<str[i]>> \o ReplacedOccurrences(str, oldStr, newStr, n, i + 1)

\* C8: replace(old, new, count) with count = 0 replaces every non-overlapping
\* occurrence of old, and with count > 0 exactly the first min(count, number of
\* occurrences) of them, left to right in the source, whatever old and new are.
C8_ReplaceFirstCount ==
    (Returned /\ m_mode = "ReplaceMode" /\ filterArgs.count.data >= 0) =>
       filtered = ReplacedOccurrences(baseVal, filterArgs.old, filterArgs.new,
                     IF filterArgs.count.data = 0 THEN Len(baseVal) ELSE filterArgs.count.data, 1)

\* the part of C8 that the code meets: count = 0, and count = 1
C8_ReplaceAllOrOne ==
    (Returned /\ m_mode = "ReplaceMode" /\ filterArgs.count.data \in {0, 1}) =>
       filtered = ReplacedOccurrences(baseVal, filterArgs.old, filterArgs.new,
                     IF filterArgs.count.data = 0 THEN Len(baseVal) ELSE 1, 1)

\* C9: "The quick brown fox" | truncate(9, false, "...", 2) yields "The...".
C9_TruncateExample ==
    (/\ Returned /\ m_mode = "TruncateMode" /\ baseVal = TheQuickBrownFox
     /\ filterArgs = TruncateArgs(IntValue(9), FALSE, Dots, IntValue(2)))
       => filtered = <<"T", "h", "e">> \o Dots

\* what the code yields there: "The quick..."
C9_TruncateExampleActual ==
    (/\ Returned /\ m_mode = "TruncateMode" /\ baseVal = TheQuickBrownFox
     /\ filterArgs = TruncateArgs(IntValue(9), FALSE, Dots, IntValue(2)))
       => filtered = SubSeq(TheQuickBrownFox, 1, 9) \o Dots

\* the positions at which a maximal run of alphanumeric characters starts
RunStarts(str) ==
    {i \in 1..Len(str) : IsAlNum(str[i]) /\ (i = 1 \/ ~IsAlNum(str[i - 1]))}

\* C10: wordcount returns the number of maximal runs of alphanumeric
\* characters of its input, 0 when there is none.
C10_WordCount ==
    (Returned /\ m_mode = "WordCountMode") =>
       value = IntValue(Cardinality(RunStarts(baseVal)))

\* three words, the runs separated by different delimiters
C10_Witness ==
    /\ Returned /\ m_mode = "WordCountMode"
    /\ baseVal = <<"a", " ", "7", "-", "a">>
    /\ value = IntValue(3)

\* no alphanumeric character at all
C10_WitnessNone ==
    /\ Returned /\ m_mode = "WordCountMode"
    /\ baseVal = <<" ", "-">>
    /\ value = IntValue(0)

-----------------------------------------------------------------------------
(* The scanning window and the extras of the binder *)

\* the mandatory declared parameters that no keyword argument matches
MandatoryOpen == {i \in DeclaredSlots : args[i].mandatory /\ ~KeywordMatched(i)}

\* C11: whenever the caller passes at least as many positional arguments as
\* there are mandatory declared parameters without a matching keyword, every
\* one of those mandatory parameters is bound and the binder succeeds; an
\* optional parameter ahead of them takes a positional only if none of them is
\* left without one.
C11_MandatoryServedFirst ==
    Returned /\ Len(params.posParams) >= Cardinality(MandatoryOpen)
       => /\ parsed.isSucceeded
          /\ \A i \in MandatoryOpen : IsBound(args[i].name)

\* the declared parameters that got neither a keyword nor a positional argument
Unfilled == {i \in DeclaredSlots : ~KeywordMatched(i) /\ ~ReceivedPositional(i)}

\* C15: a positional argument of the caller lands in extra_pos_args only when
\* no declared parameter without a matching keyword is left without a
\* positional: if some declared parameter is neither keyword-bound nor
\* positional-bound, extra_pos_args is empty.
C15_NoExtraWhileUnfilled ==
    Returned /\ Unfilled # {} => parsed.result.extraPosArgs = <<>>

\* the argsInfo indices (C++) the mapping loop assigned through, and the
\* posParams indices it read
MappedSlots == {parsed.bindings[k][2] : k \in 1..Len(parsed.bindings)}

\* C14: every index at which the scanning-window loop and the positional
\* mapping loop access argsInfo lies in 0..args.size()-1, and every index into
\* posParams is below the number of positional arguments, whatever the schema
\* and the call.
C14_IndicesInRange ==
    Returned =>
       /\ \A i \in parsed.used \cup MappedSlots : 0 <= i /\ i < Len(args)
       /\ \A j \in BoundPositionals : 0 <= j /\ j < Len(params.posParams)

\* the part of C14 that the loops do keep: the indices into posParams and the
\* argsInfo indices of the mapping loop are in range
C14_MappingInRange ==
    Returned =>
       /\ \A i \in MappedSlots : 0 <= i /\ i < Len(args)
       /\ \A j \in BoundPositionals : 0 <= j /\ j < Len(params.posParams)
       /\ parsed.eatenPosArgs <= Len(params.posParams)

-----------------------------------------------------------------------------
(* loop.cycle *)

\* C12: evaluating loop.cycle never faults, whatever the number of positional
\* arguments (zero included), the value of loop.index0 and whether or not
\* "loop" is in scope: no remainder by zero, no access outside the argument
\* list, and what it returns is the empty value or the value of the argument
\* at position index0 mod the number of arguments.
C12_CycleNeverFaults ==
    /\ pc # "aborted"
    /\ Returned =>
          \/ value = EmptyValue
          \/ /\ Len(params.posParams) > 0
             /\ value = params.posParams[(values.index0 % Len(params.posParams)) + 1].val

\* what does hold: with a "loop" map in scope, index0 >= 0 and at least one
\* positional argument, the call returns the argument at index0 mod the count
C12_CycleInLoop ==
    Returned /\ values.loopFound /\ values.isMap /\ values.index0 >= 0
             /\ Len(params.posParams) > 0
       => value = params.posParams[(values.index0 % Len(params.posParams)) + 1].val

-----------------------------------------------------------------------------
(* Rendering a call against evaluating it *)

\* C13: for a call whose callee is a Callable of any kind and either body
\* shape, the text Render writes to the sink equals the text obtained by
\* writing the value Evaluate returns; so a full expression with an `if` guard
\* that passes renders what the call renders without the guard.
C13_RenderEqualsEvaluate ==
    Returned /\ FindCallable(m_valueRef) =>
       /\ m_tester = "none" => stream = WriteValue(<<>>, value)
       /\ m_tester = "passes" => stream = CallExpressionRender(<<>>, m_valueRef)

\* what does hold: the two agree for callables of kind GlobalFunc and
\* UserCallable, of either body shape
C13_RenderEqualsEvaluateFns ==
    Returned /\ FindCallable(m_valueRef) /\ m_valueRef.kind \in {"GlobalFunc", "UserCallable"} =>
       /\ m_tester = "none" => stream = WriteValue(<<>>, value)
       /\ m_tester = "passes" => stream = CallExpressionRender(<<>>, m_valueRef)

=============================================================================
